---- MODULE Spec2Model ----
(***************************************************************************)
(* Keyframe timeline engine of pixi-anime.                                 *)
(*                                                                         *)
(*  - Movie.getElementState / Movie.interpolate (lazy resolve, one query   *)
(*    at a time) and Movie._precalculateFrames (eager dense table), the    *)
(*    two interpolation strategies of the two Movie classes;               *)
(*  - MovieRenderer play / pause / seek / update / renderFrame, the        *)
(*    playback clock and the audio window scheduler.                       *)
(*                                                                         *)
(* Numbers.  JavaScript numbers are modelled exactly:                      *)
(*  - property values are rationals n/d in lowest terms (d > 0); d = 0     *)
(*    stands for a non-finite result (a division by zero);                 *)
(*  - the playback position currentFrame is counted in units of 1/RefRate  *)
(*    of a frame, so that (fps / 60) * deltaTime is the integer            *)
(*    fps * deltaTime; NaN is kept apart from every number;                *)
(*  - the media offset currentTime is counted in units of 1/(2*fps) of a   *)
(*    second, so that (frame - startFrame) / fps is 2*(frame - startFrame) *)
(*    and the 0.5 s tolerance is fps units.                                *)
(***************************************************************************)
EXTENDS Integers, Sequences, FiniteSets, TLC

VARIABLES
    \* ---- interpolation engine (class Movie) ----
    elements,       \* movie.elements, in order: the id and the frames of each
    elementId,      \* elementId of the last getElementState() call ("": none yet)
    type,           \* element.type of the first element
    frames,         \* its element.frames as supplied by the caller (lazy Movie)
    duration,       \* movie.duration of the movie that owns the element
    elementFrames,  \* element.frames of the eager Movie (replaced by the dense table)
    precalculated,  \* number of _precalculateFrames() runs so far
    previousFrames, \* element.frames as they were when the last run began
    targetFrame,    \* argument of the last getElementState() call (-1: none yet)
    state,          \* result of the last getElementState() call
    \* ---- playback parameters of the Movie and window of its audio element ----
    loop,           \* movie.loop
    fps,            \* movie.fps
    startFrame,     \* element.startFrame: <<>> when undefined, <<n>> otherwise
    endFrame,       \* element.endFrame: <<>> when undefined, <<n>> otherwise
    \* ---- playback clock and audio scheduler (class MovieRenderer) ----
    isPlaying,      \* this.isPlaying
    currentFrame,   \* this.currentFrame, in units of 1/RefRate frame, or NaN
    ticker,         \* number of registrations of this.update with app.ticker
    paused,         \* item.paused of the audio element's HTMLAudioElement
    currentTime,    \* item.currentTime, in units of 1/(2*fps) second
    \* ---- record of the last call, for stating the properties ----
    lastCall        \* name: "none", "play", "pause", "seek", "update" or "clock";
                    \* for play, pause, seek and update also
                    \*   playing: this.isPlaying when the call began
                    \* for play, pause and update
                    \*   before: this.currentFrame when the call began
                    \* for seek and update
                    \*   renders: the arguments of the renderFrame() calls made, in
                    \*            call order, in units of 1/RefRate frame, or NaN
                    \*   frame: the argument of the last of them
                    \*   media: <<item.paused, item.currentTime>> when it began
                    \* for play and pause
                    \*   media: <<item.paused, item.currentTime>> when the call began
                    \* for seek
                    \*   arg: the argument of seek()
                    \* and for update
                    \*   deltaTime: time.deltaTime

ivars == <<elements, elementId, type, frames, duration, elementFrames, precalculated, previousFrames,
           targetFrame, state>>

mvars == <<loop, fps, startFrame, endFrame>>

rvars == <<isPlaying, currentFrame, ticker, paused, currentTime, lastCall>>

vars == <<ivars, mvars, rvars>>

----------------------------------------------------------------------------
(* Bounds of the explored inputs *)

MaxKeyframes == 3   \* longest keyframe list
MaxFrame == 2       \* largest keyframe frame
MaxDuration == 2    \* largest movie duration
MaxRuns == 2        \* number of _precalculateFrames() runs followed
MaxMediaTime == 6   \* offset up to which the media clock is followed, in 1/(2*fps) s
MaxElements == 2    \* largest number of elements of a movie

\* the reference tick rate of `speed = this.movie.fps / 60', also the default fps
RefRate == 60

----------------------------------------------------------------------------
(* Values of keyframe properties *)

Num(n) == [t |-> "num", n |-> n, d |-> 1]
Str(i) == [t |-> "str", n |-> i, d |-> 1]
Undefined == [t |-> "undef", n |-> 0, d |-> 1]
NonFinite == [t |-> "num", n |-> 0, d |-> 0]

IsNumber(v) == v.t = "num"

Abs(a) == IF a < 0 THEN -a ELSE a

RECURSIVE GCD(_, _)
GCD(a, b) == IF b = 0 THEN a ELSE GCD(b, a % b)

\* the rational n/d in lowest terms
Rational(n, d) ==
    IF d = 0 THEN NonFinite
    ELSE LET g == GCD(Abs(n), Abs(d))
             s == IF d < 0 THEN -1 ELSE 1
         IN [t |-> "num", n |-> s * (n \div g), d |-> s * (d \div g)]

\* the property names of a Frame other than `frame'
Keys == {"x", "y", "z", "w"}

NoProps == [key \in Keys |-> Undefined]

\* a faulty variant of Lerp: the ratio is left out
LerpNoRatio(v1, v2, ratio) ==
    IF v1.d = 0 \/ v2.d = 0 \/ ratio[2] = 0 THEN NonFinite
    ELSE Rational(v1.n * v2.d + (v2.n * v1.d - v1.n * v2.d), v1.d * v2.d)

\* v1 + (v2 - v1) * ratio, ratio = ratio[1] / ratio[2]
Lerp(v1, v2, ratio) ==
    IF v1.d = 0 \/ v2.d = 0 \/ ratio[2] = 0 THEN NonFinite
    ELSE Rational(v1.n * v2.d * ratio[2] + (v2.n * v1.d - v1.n * v2.d) * ratio[1],
                  v1.d * v2.d * ratio[2])

\* (target - prev.frame) / (next.frame - prev.frame), as numerator and denominator
Ratio(prev, next, target) == <<target - prev.frame, next.frame - prev.frame>>

----------------------------------------------------------------------------
(* [...frames].sort((a, b) => a.frame - b.frame): a stable ascending sort *)

\* number of leading entries of the sorted list s with frame <= f
RECURSIVE UpTo(_, _, _)
UpTo(s, f, i) ==
    IF i < Len(s) /\ s[i + 1].frame <= f THEN UpTo(s, f, i + 1) ELSE i

InsertLast(s, kf) ==
    LET i == UpTo(s, kf.frame, 0)
    IN SubSeq(s, 1, i) \o <<kf>> \o SubSeq(s, i + 1, Len(s))

RECURSIVE SortPrefix(_, _)
SortPrefix(s, n) ==
    IF n = 0 THEN <<>> ELSE InsertLast(SortPrefix(s, n - 1), s[n])

\* a faulty variant of SortFrames: the list is used as given
Unsorted(fs) == fs

SortFrames(fs) == SortPrefix(fs, Len(fs))

\* a faulty variant of ScanFrom: a keyframe at the target counts as next
RECURSIVE ScanFromStrict(_, _, _, _, _)
ScanFromStrict(sorted, target, i, prev, next) ==
    IF i > Len(sorted) THEN <<prev, next>>
    ELSE IF sorted[i].frame < target
         THEN ScanFromStrict(sorted, target, i + 1, i, next)
         ELSE <<prev, i>>

\* The scan shared by both modes: prev is the last keyframe with frame <=
\* target seen before the first keyframe with frame > target, which is next.
\* The result is the pair of their positions in the sorted list (object
\* identity of the code is identity of position).
RECURSIVE ScanFrom(_, _, _, _, _)
ScanFrom(sorted, target, i, prev, next) ==
    IF i > Len(sorted) THEN <<prev, next>>
    ELSE IF sorted[i].frame <= target
         THEN ScanFrom(sorted, target, i + 1, i, next)
         ELSE <<prev, i>>

FindSegment(sorted, target) == ScanFrom(sorted, target, 1, 1, Len(sorted))

\* { ...kf, frame: f }
WithFrame(kf, f) == [kf EXCEPT !.frame = f]

----------------------------------------------------------------------------
(* Lazy mode: Movie.interpolate *)

\* a faulty variant of Merge: a value of next replaces the held value of prev
MergeNextWins(v1, v2, ratio) ==
    IF IsNumber(v1) /\ IsNumber(v2) THEN Lerp(v1, v2, ratio)
    ELSE IF v2 # Undefined THEN v2
    ELSE v1

\* the body of keys.forEach: the value of one key of the interpolated
\* result (Undefined: the key is left out)
Merge(v1, v2, ratio) ==
    IF IsNumber(v1) /\ IsNumber(v2) THEN Lerp(v1, v2, ratio)
    ELSE IF v1 # Undefined THEN v1
    ELSE Undefined

interpolate(fs, target) ==
    LET sortedFrames == SortFrames(fs)
    IN IF Len(sortedFrames) = 0 THEN [frame |-> target, props |-> NoProps]
       ELSE LET seg == FindSegment(sortedFrames, target)
                prevFrame == sortedFrames[seg[1]]
                nextFrame == sortedFrames[seg[2]]
                ratio == Ratio(prevFrame, nextFrame, target)
            IN IF seg[1] = seg[2] THEN WithFrame(prevFrame, target)
               ELSE IF target < prevFrame.frame THEN WithFrame(prevFrame, target)
               ELSE IF target > nextFrame.frame THEN WithFrame(nextFrame, target)
               ELSE [frame |-> target,
                     props |-> [key \in Keys |->
                                  Merge(prevFrame.props[key], nextFrame.props[key], ratio)]]

\* whether interpolate reaches the computation of ratio: none of the early
\* returns is taken
interpolates(fs, target) ==
    LET sortedFrames == SortFrames(fs)
        seg == FindSegment(sortedFrames, target)
    IN /\ Len(sortedFrames) # 0
       /\ seg[1] # seg[2]
       /\ ~(target < sortedFrames[seg[1]].frame)
       /\ ~(target > sortedFrames[seg[2]].frame)

\* what getElementState returns for an unknown id
Null == [null |-> TRUE]

\* a faulty variant of findElement: the last element of that id
findElementLast(els, id, from) ==
    LET matches == {i \in from..Len(els) : els[i].id = id}
    IN IF matches = {} THEN 0 ELSE CHOOSE i \in matches : \A j \in matches : j <= i

\* this.elements.find(e => e.id === elementId): the index of the first
\* element of that id at or after from, 0 when there is none
RECURSIVE findElement(_, _, _)
findElement(els, id, from) ==
    IF from > Len(els) THEN 0
    ELSE IF els[from].id = id THEN from
    ELSE findElement(els, id, from + 1)

\* Movie.getElementState(elementId, frame)
getElementState(els, id, frame) ==
    LET element == findElement(els, id, 1)
    IN IF element = 0 THEN Null ELSE interpolate(els[element].frames, frame)

----------------------------------------------------------------------------
(* Eager mode: Movie._precalculateFrames *)

\* the numeric properties that appear in some keyframe
propsToInterpolate(keyframes) ==
    {key \in Keys : \E i \in 1..Len(keyframes) : IsNumber(keyframes[i].props[key])}

\* keyframes.find(k => k.frame === f): the position of the first match, 0 if none
RECURSIVE FindFrom(_, _, _)
FindFrom(keyframes, f, i) ==
    IF i > Len(keyframes) THEN 0
    ELSE IF keyframes[i].frame = f THEN i
    ELSE FindFrom(keyframes, f, i + 1)

Find(keyframes, f) == FindFrom(keyframes, f, 1)

\* a faulty variant of interpolatedFrame: the copy of prev keeps prev.frame
interpolatedFrameKeepsFrame(prev, next, f, props) ==
    [frame |-> prev.frame,
     props |-> [key \in Keys |->
                  IF key \in props /\ IsNumber(prev.props[key]) /\ IsNumber(next.props[key])
                  THEN Lerp(prev.props[key], next.props[key], Ratio(prev, next, f))
                  ELSE prev.props[key]]]

\* a faulty variant of interpolatedFrame: the entry also takes the
\* properties that only next has
interpolatedFrameWithNext(prev, next, f, props) ==
    [frame |-> f,
     props |-> [key \in Keys |->
                  IF key \in props /\ IsNumber(prev.props[key]) /\ IsNumber(next.props[key])
                  THEN Lerp(prev.props[key], next.props[key], Ratio(prev, next, f))
                  ELSE IF prev.props[key] # Undefined THEN prev.props[key]
                  ELSE next.props[key]]]

\* the interpolated entry: a copy of prev with frame f and with every
\* property of propsToInterpolate that is numeric on prev and next replaced
interpolatedFrame(prev, next, f, props) ==
    [frame |-> f,
     props |-> [key \in Keys |->
                  IF key \in props /\ IsNumber(prev.props[key]) /\ IsNumber(next.props[key])
                  THEN Lerp(prev.props[key], next.props[key], Ratio(prev, next, f))
                  ELSE prev.props[key]]]

\* one iteration of the loop over f: the entry pushed to fullFrames
fullFrame(keyframes, f) ==
    LET exact == Find(keyframes, f)
        seg == FindSegment(keyframes, f)
        prev == keyframes[seg[1]]
        next == keyframes[seg[2]]
    IN IF exact # 0 THEN keyframes[exact]
       ELSE IF f < prev.frame THEN WithFrame(prev, f)
       ELSE IF f > next.frame THEN WithFrame(next, f)
       ELSE IF seg[1] = seg[2] THEN WithFrame(prev, f)
       ELSE interpolatedFrame(prev, next, f, propsToInterpolate(keyframes))

\* whether the iteration for f reaches the computation of ratio: none of
\* the `continue' statements is taken
fullFrameInterpolates(keyframes, f) ==
    LET seg == FindSegment(keyframes, f)
    IN /\ Find(keyframes, f) = 0
       /\ ~(f < keyframes[seg[1]].frame)
       /\ ~(f > keyframes[seg[2]].frame)
       /\ seg[1] # seg[2]

\* a faulty variant of precalculateFrames: the loop stops before the last frame
precalculateFramesShort(elType, fs, dur) ==
    IF elType = "audio" THEN fs
    ELSE LET keyframes == SortFrames(fs)
         IN IF Len(keyframes) = 0 THEN fs
            ELSE [i \in 1..dur |-> fullFrame(keyframes, i - 1)]

\* the new element.frames of one element
precalculateFrames(elType, fs, dur) ==
    IF elType = "audio" THEN fs
    ELSE LET keyframes == SortFrames(fs)
         IN IF Len(keyframes) = 0 THEN fs
            ELSE [i \in 1..(dur + 1) |-> fullFrame(keyframes, i - 1)]

----------------------------------------------------------------------------
(* The elements explored *)

Types == {"image", "audio"}

\* two property sets that between them show every pairing of a key on prev
\* and next: number/number (x), string/number (y), string/absent (z),
\* absent/number (w), and the reverse of each
PropSets ==
    { [key \in Keys |-> CASE key = "x" -> Num(0)
                          [] key = "y" -> Str(1)
                          [] key = "z" -> Str(2)
                          [] OTHER -> Undefined],
      [key \in Keys |-> CASE key = "x" -> Num(10)
                          [] key = "y" -> Num(5)
                          [] key = "w" -> Num(7)
                          [] OTHER -> Undefined] }

Keyframes == [frame : 0..MaxFrame, props : PropSets]

KeyframeLists == UNION {[1..n -> Keyframes] : n \in 0..MaxKeyframes}

\* the example timeline {frame: 0, x: 0}, {frame: 10, x: 100}, in a movie of
\* duration 10
ExampleFrames ==
    << [frame |-> 0, props |-> [NoProps EXCEPT !["x"] = Num(0)]],
       [frame |-> 10, props |-> [NoProps EXCEPT !["x"] = Num(100)]] >>

ExampleDuration == ExampleFrames[2].frame

NoState == [frame |-> -1, props |-> NoProps]

\* the id of the element when the movie has one element
ElementId == "a"

\* new Movie(elements, options) with loop and fps left to their defaults
InitMovie ==
    /\ \/ /\ type \in Types
          /\ frames \in KeyframeLists
          /\ duration \in 0..MaxDuration
       \/ /\ type = "image"
          /\ frames = ExampleFrames
          /\ duration = ExampleDuration
    /\ elements = <<[id |-> ElementId, frames |-> frames]>>
    /\ elementId = ""
    /\ loop = TRUE
    /\ fps = RefRate
    /\ startFrame = <<>>
    /\ endFrame = <<>>
    /\ elementFrames = frames
    /\ precalculated = 0
    /\ previousFrames = frames
    /\ targetFrame = -1
    /\ state = NoState

\* the ids and the frame lists of the movies of several elements
Ids == {"a", "b"}
UnknownId == "c"
ShortLists == UNION {[1..n -> Keyframes] : n \in 0..1}
ElementLists == UNION {[1..n -> [id : Ids, frames : ShortLists]] : n \in 0..MaxElements}

\* new Movie(elements, options) with up to MaxElements elements
InitMovieOfSeveral ==
    /\ elements \in ElementLists
    /\ elementId = ""
    /\ type = "image"
    /\ frames = IF elements = <<>> THEN <<>> ELSE elements[1].frames
    /\ duration = MaxDuration
    /\ loop = TRUE
    /\ fps = RefRate
    /\ startFrame = <<>>
    /\ endFrame = <<>>
    /\ elementFrames = frames
    /\ precalculated = 0
    /\ previousFrames = frames
    /\ targetFrame = -1
    /\ state = NoState

\* Movie.init(true): _precalculateFrames()
PrecalculateFrames ==
    /\ precalculated < MaxRuns
    /\ precalculated' = precalculated + 1
    /\ previousFrames' = elementFrames
    /\ elementFrames' = precalculateFrames(type, elementFrames, duration)
    /\ UNCHANGED <<elements, elementId, type, frames, duration, targetFrame, state,
                   mvars, rvars>>

\* Movie.getElementState(id, f) on the lazy Movie
GetElementState(id, f) ==
    /\ elementId' = id
    /\ targetFrame' = f
    /\ state' = getElementState(elements, id, f)
    /\ UNCHANGED <<elements, type, frames, duration, elementFrames, precalculated,
                   previousFrames, mvars, rvars>>

----------------------------------------------------------------------------
(* Playback clock: MovieRenderer.play / pause / seek / update *)

Number(v) == [nan |-> FALSE, v |-> v]
NaN == [nan |-> TRUE, v |-> 0]

\* a + b, a > b, a % b and Math.floor(a) of JavaScript numbers; a is a
\* position or a frame number in units of 1/RefRate frame, b a number of
\* such units
Plus(a, b) == IF a.nan THEN NaN ELSE Number(a.v + b)
Greater(a, b) == ~a.nan /\ a.v > b
Remainder(a, b) == IF a.nan \/ b = 0 THEN NaN ELSE Number(a.v % b)
Floor(a) == IF a.nan THEN NaN ELSE Number((a.v \div RefRate) * RefRate)

\* element.startFrame ?? 0 and element.endFrame ?? this.movie.duration
OrElse(optional, default) == IF optional = <<>> THEN default ELSE optional[1]

\* frame >= startFrame && frame < endFrame, frame in units of 1/RefRate frame
InWindow(frame) ==
    /\ ~frame.nan
    /\ frame.v >= OrElse(startFrame, 0) * RefRate
    /\ frame.v < OrElse(endFrame, duration) * RefRate

\* (frame - startFrame) / this.movie.fps seconds, in units of 1/(2*fps)
\* second: twice the number of frames, exact for the frames explored, which
\* are multiples of half a frame
expectedTime(frame) == (2 * (frame.v - OrElse(startFrame, 0) * RefRate)) \div RefRate

\* the 0.5 second of the drift test, in units of 1/(2*fps) second
Tolerance == fps

\* a faulty variant of renderFrame: the offset is rewritten on every render
renderFrameAlwaysSyncs(frame, playing, media) ==
    IF InWindow(frame)
    THEN IF playing THEN <<FALSE, expectedTime(frame)>> ELSE media
    ELSE IF ~media[1] THEN <<TRUE, 0>> ELSE media

\* a faulty variant of renderFrame: this.isPlaying is not consulted
renderFrameIgnoresPlaying(frame, playing, media) ==
    IF InWindow(frame)
    THEN IF media[1] THEN <<FALSE, expectedTime(frame)>>
         ELSE IF Abs(media[2] - expectedTime(frame)) > Tolerance
              THEN <<FALSE, expectedTime(frame)>>
              ELSE media
    ELSE IF ~media[1] THEN <<TRUE, 0>> ELSE media

\* MovieRenderer.renderFrame(frame) for the audio element: the new
\* <<item.paused, item.currentTime>>, given this.isPlaying and the old pair.
\* item.play() is taken to start the media (item.paused becomes false).
renderFrame(frame, playing, media) ==
    IF InWindow(frame)
    THEN IF playing /\ media[1] THEN <<FALSE, expectedTime(frame)>>
         ELSE IF playing /\ ~media[1]
              THEN IF Abs(media[2] - expectedTime(frame)) > Tolerance
                   THEN <<FALSE, expectedTime(frame)>>
                   ELSE media
              ELSE media
    ELSE IF ~media[1] THEN <<TRUE, 0>> ELSE media

\* the position after `this.currentFrame += speed * time.deltaTime`
advance(position, dt) == Plus(position, fps * dt)

\* a faulty variant of wrap: without loop the position is not clamped
wrapNoClamp(position, dt) ==
    LET advanced == advance(position, dt)
    IN IF Greater(advanced, duration * RefRate) /\ loop
       THEN Remainder(advanced, duration * RefRate)
       ELSE advanced

\* a faulty variant of wrap: one duration is subtracted instead of the remainder
wrapOnce(position, dt) ==
    LET advanced == advance(position, dt)
    IN IF Greater(advanced, duration * RefRate)
       THEN IF loop THEN Plus(advanced, 0 - duration * RefRate)
            ELSE Number(duration * RefRate)
       ELSE advanced

\* the position update() leaves in this.currentFrame
wrap(position, dt) ==
    LET advanced == advance(position, dt)
    IN IF Greater(advanced, duration * RefRate)
       THEN IF loop THEN Remainder(advanced, duration * RefRate)
            ELSE Number(duration * RefRate)
       ELSE advanced

\* a faulty variant of stops: update() never calls this.pause()
stopsNever(position, dt) == FALSE

\* whether update() calls this.pause()
stops(position, dt) == Greater(advance(position, dt), duration * RefRate) /\ ~loop

\* the movies explored: frame rates and audio windows
Rates == {2, 4}
Windows == { <<<<>>, <<>>>>, <<<<1>>, <<3>>>> }

\* the example movie: duration 100, loop, 60 fps, audio window [30, 60)
ExampleMovie == [duration |-> 100, fps |-> 60, startFrame |-> <<30>>, endFrame |-> <<60>>]

\* the tick deltas explored: at 2 fps a quarter second (15 reference ticks)
\* is half a frame, at 4 fps a whole frame; 10 ticks are 10 frames of the
\* example movie
Deltas == {0, 10, 15, 30, 60}

\* the seek targets explored, in units of 1/RefRate frame: every whole frame
\* up to one past the largest duration, four frames of the example movie,
\* and the frames 0.5 and 1.5
WholeSeeks == 0..(MaxDuration + 1) \cup {20, 45, 70, 95}
HalfSeeks == {RefRate \div 2, RefRate + RefRate \div 2}
Seeks == {f * RefRate : f \in WholeSeeks} \cup HalfSeeks

\* new Movie(elements, options) with one audio element; new MovieRenderer(movie)
InitRenderer ==
    /\ type = "audio"
    /\ frames = <<>>
    /\ elements = <<[id |-> ElementId, frames |-> frames]>>
    /\ elementId = ""
    /\ \/ /\ duration \in 0..MaxDuration
          /\ loop \in BOOLEAN
          /\ fps \in Rates
          /\ \E w \in Windows : startFrame = w[1] /\ endFrame = w[2]
       \/ /\ duration = ExampleMovie.duration
          /\ loop = TRUE
          /\ fps = ExampleMovie.fps
          /\ startFrame = ExampleMovie.startFrame
          /\ endFrame = ExampleMovie.endFrame
    /\ elementFrames = frames
    /\ precalculated = 0
    /\ previousFrames = frames
    /\ targetFrame = -1
    /\ state = NoState

NoCall ==
    /\ isPlaying = FALSE
    /\ currentFrame = Number(0)
    /\ ticker = 0
    /\ paused = TRUE
    /\ currentTime = 0
    /\ lastCall = [name |-> "none"]

\* a faulty variant of play: no early return while playing
PlayAlways ==
    /\ isPlaying' = TRUE
    /\ ticker' = ticker + 1
    /\ lastCall' = [name |-> "play", playing |-> isPlaying, before |-> currentFrame,
                    media |-> <<paused, currentTime>>]
    /\ UNCHANGED <<currentFrame, paused, currentTime>>
    /\ UNCHANGED <<ivars, mvars>>

\* MovieRenderer.play(); app.ticker.add() adds one registration
Play ==
    /\ isPlaying' = TRUE
    /\ ticker' = IF isPlaying THEN ticker ELSE ticker + 1
    /\ lastCall' = [name |-> "play", playing |-> isPlaying, before |-> currentFrame,
                    media |-> <<paused, currentTime>>]
    /\ UNCHANGED <<currentFrame, paused, currentTime>>
    /\ UNCHANGED <<ivars, mvars>>

\* a faulty variant of pause: the media is left as it is
PauseLeavesAudio ==
    /\ isPlaying' = FALSE
    /\ ticker' = 0
    /\ lastCall' = [name |-> "pause", playing |-> isPlaying, before |-> currentFrame,
                    media |-> <<paused, currentTime>>]
    /\ UNCHANGED <<currentFrame, paused, currentTime>>
    /\ UNCHANGED <<ivars, mvars>>

\* MovieRenderer.pause(); app.ticker.remove() removes every registration
Pause ==
    /\ isPlaying' = FALSE
    /\ ticker' = 0
    /\ paused' = TRUE
    /\ lastCall' = [name |-> "pause", playing |-> isPlaying, before |-> currentFrame,
                    media |-> <<paused, currentTime>>]
    /\ UNCHANGED <<currentFrame, currentTime>>
    /\ UNCHANGED <<ivars, mvars>>

\* a faulty variant of seek: the frame is not rendered within the call
SeekWithoutRender(f) ==
    /\ currentFrame' = Number(f)
    /\ lastCall' = [name |-> "seek", playing |-> isPlaying, arg |-> f,
                    renders |-> <<>>, frame |-> Number(f),
                    media |-> <<paused, currentTime>>]
    /\ UNCHANGED <<isPlaying, ticker, paused, currentTime>>
    /\ UNCHANGED <<ivars, mvars>>

\* MovieRenderer.seek(f), f a frame number in units of 1/RefRate frame
Seek(f) ==
    LET atRender == <<paused, currentTime>>
        media == renderFrame(Number(f), isPlaying, atRender)
    IN /\ currentFrame' = Number(f)
       /\ paused' = media[1]
       /\ currentTime' = media[2]
       /\ lastCall' = [name |-> "seek", playing |-> isPlaying, arg |-> f,
                       renders |-> <<Number(f)>>, frame |-> Number(f), media |-> atRender]
       /\ UNCHANGED <<isPlaying, ticker>>
       /\ UNCHANGED <<ivars, mvars>>

\* a faulty variant of update: the frame is rendered before the position is
\* wrapped or clamped
UpdateRendersFirst(dt) ==
    LET advanced == advance(currentFrame, dt)
        stop == stops(currentFrame, dt)
        atRender == <<paused, currentTime>>
        media == renderFrame(Floor(advanced), isPlaying, atRender)
    IN /\ ticker > 0
       /\ currentFrame' = wrap(currentFrame, dt)
       /\ isPlaying' = (isPlaying /\ ~stop)
       /\ ticker' = IF stop THEN 0 ELSE ticker
       /\ paused' = (media[1] \/ stop)
       /\ currentTime' = media[2]
       /\ lastCall' = [name |-> "update", playing |-> isPlaying, before |-> currentFrame,
                       renders |-> <<Floor(advanced)>>, frame |-> Floor(advanced),
                       media |-> atRender, deltaTime |-> dt]
       /\ UNCHANGED <<ivars, mvars>>

\* MovieRenderer.update(time), called by app.ticker while it is registered
Update(dt) ==
    LET position == wrap(currentFrame, dt)
        stop == stops(currentFrame, dt)
        playing == isPlaying /\ ~stop
        atRender == <<paused \/ stop, currentTime>>
        media == renderFrame(Floor(position), playing, atRender)
    IN /\ ticker > 0
       /\ currentFrame' = position
       /\ isPlaying' = playing
       /\ ticker' = IF stop THEN 0 ELSE ticker
       /\ paused' = media[1]
       /\ currentTime' = media[2]
       /\ lastCall' = [name |-> "update", playing |-> isPlaying, before |-> currentFrame,
                       renders |-> <<Floor(position)>>, frame |-> Floor(position),
                       media |-> atRender, deltaTime |-> dt]
       /\ UNCHANGED <<ivars, mvars>>

\* the media element's own clock: while it plays, item.currentTime runs on
\* (followed up to MaxMediaTime)
Clock ==
    /\ ~paused
    /\ currentTime < MaxMediaTime
    /\ currentTime' = currentTime + 1
    /\ lastCall' = [name |-> "clock"]
    /\ UNCHANGED <<isPlaying, currentFrame, ticker, paused>>
    /\ UNCHANGED <<ivars, mvars>>

----------------------------------------------------------------------------
(* Specifications *)

\* the interpolation engine on one element
Init == InitMovie /\ NoCall

Next ==
    \/ PrecalculateFrames
    \/ \E f \in 0..(duration + 1) : GetElementState(elements[1].id, f)

Spec == Init /\ [][Next]_vars

\* element lookup on a lazy movie of several elements
InitElements == InitMovieOfSeveral /\ NoCall

NextElements ==
    \E id \in Ids \cup {UnknownId}, f \in 0..(duration + 1) : GetElementState(id, f)

SpecElements == InitElements /\ [][NextElements]_vars

\* the playback clock and the audio scheduler on a movie with one audio element
InitPlayback == InitRenderer /\ NoCall

NextPlayback ==
    \/ Play
    \/ Pause
    \/ \E f \in Seeks : Seek(f)
    \/ \E dt \in Deltas : Update(dt)
    \/ Clock

SpecPlayback == InitPlayback /\ [][NextPlayback]_vars

\* the same, the caller seeking only to frames of [0, duration]
NextSeeksInRange ==
    \/ Play
    \/ Pause
    \/ \E f \in Seeks : f <= duration * RefRate /\ Seek(f)
    \/ \E dt \in Deltas : Update(dt)
    \/ Clock

SpecSeeksInRange == InitPlayback /\ [][NextSeeksInRange]_vars

\* playback left to run: the caller calls play() only, and app.ticker
\* delivers a tick with a positive delta again and again while this.update is
\* registered
PositiveDeltas == {dt \in Deltas : dt > 0}

Tick == \E dt \in PositiveDeltas : Update(dt)

NextRun ==
    \/ Play
    \/ Tick
    \/ Clock

SpecRun == InitPlayback /\ [][NextRun]_vars /\ WF_vars(Tick)

----------------------------------------------------------------------------
(* Properties of the interpolation engine *)

\* a getElementState() call has returned
Queried == targetFrame >= 0

\* the dense table exists: precomputation has run on a visual element that
\* has keyframes
Dense == precalculated >= 1 /\ type # "audio" /\ Len(frames) > 0

\* the entry for frame f of the dense table
Entry(f) == elementFrames[Find(elementFrames, f)]

NumericProps(fr) ==
    [key \in Keys |-> IF IsNumber(fr.props[key]) THEN fr.props[key] ELSE Undefined]

\* positions of the keyframes of fs at frame f
At(fs, f) == {i \in 1..Len(fs) : fs[i].frame = f}

\* the first and the last keyframe of the stable ascending order of fs
FirstAscending(fs) ==
    fs[CHOOSE i \in 1..Len(fs) : \A j \in 1..Len(fs) :
          fs[i].frame < fs[j].frame \/ (fs[i].frame = fs[j].frame /\ i <= j)]

LastAscending(fs) ==
    fs[CHOOSE i \in 1..Len(fs) : \A j \in 1..Len(fs) :
          fs[i].frame > fs[j].frame \/ (fs[i].frame = fs[j].frame /\ i >= j)]

Before(fs, f) == {i \in 1..Len(fs) : fs[i].frame < f}
After(fs, f) == {i \in 1..Len(fs) : fs[i].frame > f}

\* the nearest keyframe before f (the last of them in the stable order) and
\* the nearest keyframe after f (the first of them in the stable order)
NearestBefore(fs, f) ==
    fs[CHOOSE i \in Before(fs, f) : \A j \in Before(fs, f) :
          fs[i].frame > fs[j].frame \/ (fs[i].frame = fs[j].frame /\ i >= j)]

NearestAfter(fs, f) ==
    fs[CHOOSE i \in After(fs, f) : \A j \in After(fs, f) :
          fs[i].frame < fs[j].frame \/ (fs[i].frame = fs[j].frame /\ i <= j)]

\* f lies strictly between two keyframes and on none
Between(fs, f) == Before(fs, f) # {} /\ After(fs, f) # {} /\ At(fs, f) = {}

\* p[key] + (n[key] - p[key]) * (f - p.frame) / (n.frame - p.frame) for the
\* integer property values of the keyframes p and n
Expected(p, n, key, f) ==
    Rational(p.props[key].n * (n.frame - p.frame)
               + (n.props[key].n - p.props[key].n) * (f - p.frame),
             n.frame - p.frame)

\* C1 (as claimed): at every frame of [0, duration] the numeric values of the
\* lazy resolve equal the numeric values of the dense table's entry for that
\* frame, for any keyframe list, duplicates included.
ModeEquivalence ==
    (Queried /\ Dense /\ targetFrame <= duration)
        => NumericProps(state) = NumericProps(Entry(targetFrame))

\* C1, the part the code keeps: the two modes agree at every frame that does
\* not carry several keyframes.
ModeEquivalenceNoDuplicateAtTarget ==
    (Queried /\ Dense /\ targetFrame <= duration
       /\ Cardinality(At(frames, targetFrame)) <= 1)
        => NumericProps(state) = NumericProps(Entry(targetFrame))

\* C2: a frame k that carries exactly one keyframe resolves to that
\* keyframe, frame k and every property unchanged, in the lazy resolve and
\* in the dense table.
ExactMatch ==
    /\ (Queried /\ Cardinality(At(frames, targetFrame)) = 1)
          => state = frames[CHOOSE i \in At(frames, targetFrame) : TRUE]
    /\ Dense =>
          \A k \in 0..duration :
             Cardinality(At(frames, k)) = 1
                => Entry(k) = frames[CHOOSE i \in At(frames, k) : TRUE]

ExactMatchWitness ==
    /\ Queried /\ Dense /\ targetFrame <= duration
    /\ Len(frames) = 3
    /\ frames[1].frame > frames[3].frame
    /\ frames[3].frame = targetFrame
    /\ frames[2].frame < targetFrame
    /\ frames[1].props # frames[3].props
    /\ frames[2].props # frames[3].props
    /\ state = frames[3]

\* C3: before the smallest keyframe frame the result is the first keyframe
\* of the ascending order, after the largest it is the last one, with the
\* frame rewritten to the target and every property as in that keyframe.
BoundaryClamp ==
    /\ (Queried /\ Len(frames) > 0) =>
          /\ After(frames, targetFrame) = 1..Len(frames)
                => state = WithFrame(FirstAscending(frames), targetFrame)
          /\ Before(frames, targetFrame) = 1..Len(frames)
                => state = WithFrame(LastAscending(frames), targetFrame)
    /\ Dense =>
          \A f \in 0..duration :
             /\ After(frames, f) = 1..Len(frames)
                   => Entry(f) = WithFrame(FirstAscending(frames), f)
             /\ Before(frames, f) = 1..Len(frames)
                   => Entry(f) = WithFrame(LastAscending(frames), f)

BoundaryClampWitness ==
    /\ Queried /\ Dense
    /\ Len(frames) = 3
    /\ Before(frames, targetFrame) = 1..3
    /\ frames[1].frame > frames[2].frame
    /\ frames[1].frame = frames[3].frame
    /\ frames[1].props # frames[3].props
    /\ state = WithFrame(frames[3], targetFrame)
    /\ After(frames, 0) = 1..3

\* C4: strictly between two keyframes every property that is numeric on
\* both resolves to prev + (next - prev) * (t - prev.frame) / (next.frame -
\* prev.frame), in the lazy resolve and in the dense table; the example
\* timeline gives 50 at frame 5 and 30 at frame 3.
LinearInterpolation ==
    /\ (Queried /\ Between(frames, targetFrame)) =>
          LET p == NearestBefore(frames, targetFrame)
              n == NearestAfter(frames, targetFrame)
          IN \A key \in Keys :
                (IsNumber(p.props[key]) /\ IsNumber(n.props[key]))
                   => state.props[key] = Expected(p, n, key, targetFrame)
    /\ Dense =>
          \A f \in 0..duration :
             Between(frames, f) =>
                LET p == NearestBefore(frames, f)
                    n == NearestAfter(frames, f)
                IN \A key \in Keys :
                      (IsNumber(p.props[key]) /\ IsNumber(n.props[key]))
                         => Entry(f).props[key] = Expected(p, n, key, f)
    /\ (frames = ExampleFrames /\ targetFrame = 5) => state.props["x"] = Num(50)
    /\ (frames = ExampleFrames /\ targetFrame = 3) => state.props["x"] = Num(30)

LinearInterpolationWitness ==
    /\ frames = ExampleFrames
    /\ targetFrame = 3
    /\ state.props["x"] = Num(30)
    /\ Dense
    /\ Entry(3).props["x"] = Num(30)
    /\ Entry(5).props["x"] = Num(50)

\* the value v is defined and is not a number
NonNumeric(v) == v # Undefined /\ ~IsNumber(v)

\* the key has a non-numeric value on p that n lacks, or a number on one of
\* p and n and a non-numeric value on the other
Held(p, n, key) ==
    \/ NonNumeric(p.props[key]) /\ n.props[key] = Undefined
    \/ IsNumber(p.props[key]) /\ NonNumeric(n.props[key])
    \/ NonNumeric(p.props[key]) /\ IsNumber(n.props[key])

\* C12: strictly between two keyframes a property that is non-numeric on
\* prev and absent from next, or numeric on one of them and non-numeric on
\* the other, resolves to the value it has on prev, in the lazy resolve and
\* in the dense table.
NonNumericHold ==
    /\ (Queried /\ Between(frames, targetFrame)) =>
          LET p == NearestBefore(frames, targetFrame)
              n == NearestAfter(frames, targetFrame)
          IN \A key \in Keys :
                Held(p, n, key) => state.props[key] = p.props[key]
    /\ Dense =>
          \A f \in 0..duration :
             Between(frames, f) =>
                LET p == NearestBefore(frames, f)
                    n == NearestAfter(frames, f)
                IN \A key \in Keys :
                      Held(p, n, key) => Entry(f).props[key] = p.props[key]

\* a frame between a keyframe with strings on y and z and a keyframe with a
\* number on y and no z has been resolved in both modes
NonNumericHoldWitness ==
    /\ Queried /\ Dense /\ targetFrame <= duration
    /\ Between(frames, targetFrame)
    /\ LET p == NearestBefore(frames, targetFrame)
           n == NearestAfter(frames, targetFrame)
       IN /\ NonNumeric(p.props["z"]) /\ n.props["z"] = Undefined
          /\ NonNumeric(p.props["y"]) /\ IsNumber(n.props["y"])
          /\ state.props["z"] = p.props["z"]
          /\ state.props["y"] = p.props["y"]
          /\ Entry(targetFrame).props["z"] = p.props["z"]
          /\ Entry(targetFrame).props["y"] = p.props["y"]

\* the first keyframe of fs at frame f in the stable ascending order: the
\* one that comes first in fs
FirstAt(fs, f) == fs[CHOOSE i \in At(fs, f) : \A j \in At(fs, f) : i <= j]

\* C16 (as claimed): a frame that carries several keyframes resolves to the
\* first of them in stable ascending order, in the lazy resolve and in the
\* dense table.
DuplicateFirstWins ==
    /\ (Queried /\ Cardinality(At(frames, targetFrame)) >= 2)
          => state = FirstAt(frames, targetFrame)
    /\ Dense =>
          \A k \in 0..duration :
             Cardinality(At(frames, k)) >= 2 => Entry(k) = FirstAt(frames, k)

\* C16, the part the code keeps: the dense table has the first duplicate.
DuplicateFirstWinsEager ==
    Dense =>
       \A k \in 0..duration :
          Cardinality(At(frames, k)) >= 2 => Entry(k) = FirstAt(frames, k)

\* the lazy resolve of a frame that carries several keyframes has the values
\* of the last of them
DuplicateLastWinsLazy ==
    (Queried /\ Cardinality(At(frames, targetFrame)) >= 2)
        => state = frames[CHOOSE i \in At(frames, targetFrame) :
                             \A j \in At(frames, targetFrame) : i >= j]

\* prev and next as the scan of the sorted keyframes leaves them for frame f
Prev(fs, f) == SortFrames(fs)[FindSegment(SortFrames(fs), f)[1]]
Succ(fs, f) == SortFrames(fs)[FindSegment(SortFrames(fs), f)[2]]

\* prev.frame <= f < next.frame, so that the ratio has a positive
\* denominator and lies in [0, 1)
ProperSegment(fs, f) ==
    LET ratio == Ratio(Prev(fs, f), Succ(fs, f), f)
    IN /\ Prev(fs, f).frame <= f
       /\ f < Succ(fs, f).frame
       /\ ratio[2] > 0
       /\ 0 <= ratio[1] /\ ratio[1] < ratio[2]

\* every number of the frame fr is finite
Finite(fr) == \A key \in Keys : IsNumber(fr.props[key]) => fr.props[key].d # 0

\* C17: whenever the interpolation branch is reached, prev.frame <= target <
\* next.frame, the ratio lies in [0, 1) and nothing is divided by zero, in
\* the lazy resolve and in the dense table.
NonZeroDenominator ==
    /\ (Queried /\ interpolates(frames, targetFrame))
          => (ProperSegment(frames, targetFrame) /\ Finite(state))
    /\ Dense =>
          \A f \in 0..duration :
             fullFrameInterpolates(SortFrames(frames), f)
                => (ProperSegment(frames, f) /\ Finite(Entry(f)))

\* the interpolation branch has been reached in both modes on an unsorted
\* list with duplicates, the target strictly inside the segment
NonZeroDenominatorWitness ==
    /\ Queried /\ Dense /\ targetFrame <= duration
    /\ interpolates(frames, targetFrame)
    /\ fullFrameInterpolates(SortFrames(frames), targetFrame)
    /\ Len(frames) = 3
    /\ frames[1].frame > frames[2].frame
    /\ \E i, j \in 1..3 : i # j /\ frames[i].frame = frames[j].frame
    /\ Ratio(Prev(frames, targetFrame), Succ(frames, targetFrame), targetFrame)[1] > 0
    /\ state.props["x"] = Num(5)
    /\ Entry(targetFrame).props["x"] = Num(5)

\* the lazy resolve has reached the interpolation branch at a frame that
\* carries keyframes: the ratio is 0
ZeroRatioWitness ==
    /\ Queried
    /\ interpolates(frames, targetFrame)
    /\ At(frames, targetFrame) # {}
    /\ Ratio(Prev(frames, targetFrame), Succ(frames, targetFrame), targetFrame)[1] = 0

\* the property keys a frame defines
KeysOf(fr) == {key \in Keys : fr.props[key] # Undefined}

\* C19: strictly between two keyframes the result has exactly the keys that
\* prev defines, in the lazy resolve and in the dense table alike; a key
\* that only next defines is in neither.
KeyPolicy ==
    /\ (Queried /\ Between(frames, targetFrame))
          => KeysOf(state) = KeysOf(NearestBefore(frames, targetFrame))
    /\ Dense =>
          \A f \in 0..duration :
             Between(frames, f) => KeysOf(Entry(f)) = KeysOf(NearestBefore(frames, f))
    /\ (Queried /\ Dense /\ targetFrame <= duration /\ Between(frames, targetFrame))
          => KeysOf(state) = KeysOf(Entry(targetFrame))

\* a frame between a keyframe without w and a keyframe with w and without z
\* has been resolved in both modes
KeyPolicyWitness ==
    /\ Queried /\ Dense /\ targetFrame <= duration
    /\ Between(frames, targetFrame)
    /\ KeysOf(NearestBefore(frames, targetFrame)) = {"x", "y", "z"}
    /\ KeysOf(NearestAfter(frames, targetFrame)) = {"x", "y", "w"}
    /\ KeysOf(state) = {"x", "y", "z"}
    /\ KeysOf(Entry(targetFrame)) = {"x", "y", "z"}

\* C20: after the precomputation a visual element that had keyframes has
\* duration + 1 entries, the i-th of them (from 0) with frame i, so that the
\* lookup of every frame of [0, duration] finds the entry of that frame; an
\* audio element and an element without keyframes keep their list.
DenseTableShape ==
    precalculated >= 1 =>
        IF type # "audio" /\ Len(frames) > 0
        THEN /\ Len(elementFrames) = duration + 1
             /\ \A i \in 0..duration :
                   /\ elementFrames[i + 1].frame = i
                   /\ Find(elementFrames, i) = i + 1
        ELSE elementFrames = frames

\* the table of an unsorted keyframe list with a keyframe beyond the
\* duration and a frame that carries two keyframes has been computed
DenseTableShapeWitness ==
    /\ precalculated = 1
    /\ Dense
    /\ duration >= 1
    /\ Len(frames) = 3
    /\ frames[1].frame > duration
    /\ frames[2].frame = frames[3].frame
    /\ Len(elementFrames) = duration + 1
    /\ \A i \in 0..duration : elementFrames[i + 1].frame = i

\* the precomputation has run on an audio element that has frames
AudioKeepsFramesWitness ==
    /\ precalculated = 1
    /\ type = "audio"
    /\ Len(frames) = 2
    /\ elementFrames = frames

\* C10: a second run of the precomputation leaves the table of the first
\* run as it is, entry by entry.
IdempotentPrecompute ==
    precalculated >= 2 => elementFrames = previousFrames

IdempotentPrecomputeWitness ==
    /\ precalculated = 2
    /\ Dense
    /\ Len(frames) = 3
    /\ Len(elementFrames) = duration + 1
    /\ elementFrames # frames
    /\ \E i \in 1..3 : frames[i].frame > duration
    /\ \E i, j \in 1..3 : i # j /\ frames[i].frame = frames[j].frame
    /\ \E f \in 0..duration : Between(frames, f)

----------------------------------------------------------------------------
(* Properties of the playback clock and the audio scheduler *)

Updated == lastCall.name = "update"
Rendered == lastCall.name \in {"seek", "update"}

\* the movie's duration in units of 1/RefRate frame
End == duration * RefRate

\* the position the last update() reached before wrapping or clamping
Advanced == lastCall.before.v + fps * lastCall.deltaTime

\* the last update() took the position past the duration
WentPast == Updated /\ ~lastCall.before.nan /\ Advanced > End

\* the audio window [start, end) with its defaults
WindowStart == IF startFrame = <<>> THEN 0 ELSE startFrame[1]
WindowEnd == IF endFrame = <<>> THEN duration ELSE endFrame[1]
Inside(f) == ~f.nan /\ WindowStart * RefRate <= f.v /\ f.v < WindowEnd * RefRate

\* (f - startFrame) / fps seconds in units of 1/(2*fps) second
Offset(f) == (2 * (f.v - WindowStart * RefRate)) \div RefRate

\* C5: without loop, a tick that takes the position past the duration
\* leaves it exactly at the duration with playback paused and the tick
\* callback removed, and a later tick that finds it at the duration leaves
\* it there.
ClampAndStop ==
    (Updated /\ ~loop) =>
       /\ WentPast => (currentFrame = Number(End) /\ ~isPlaying /\ ticker = 0)
       /\ lastCall.before = Number(End) => currentFrame = Number(End)

ClampAndStopWitness ==
    /\ Updated /\ ~loop /\ duration > 0
    /\ lastCall.before = Number(End)
    /\ lastCall.deltaTime > 0
    /\ currentFrame = Number(End)
    /\ ~isPlaying /\ ticker = 0

\* C6: with loop and duration > 0, a tick that takes the position past the
\* duration leaves it at (old position + (fps/60) * dt) mod duration, in
\* [0, duration), however many durations the tick spans; 95 advanced by 10
\* frames in the example movie gives 5.
LoopWrap ==
    /\ (WentPast /\ loop /\ duration > 0) =>
          /\ ~currentFrame.nan
          /\ 0 <= currentFrame.v /\ currentFrame.v < End
          /\ \E k \in 1..Advanced : currentFrame.v = Advanced - k * End
    /\ (Updated /\ duration = ExampleMovie.duration /\ fps = ExampleMovie.fps
          /\ lastCall.before = Number(95 * RefRate) /\ lastCall.deltaTime = 10)
          => currentFrame = Number(5 * RefRate)

LoopWrapWitness ==
    /\ WentPast /\ loop /\ duration > 0
    /\ Advanced > 3 * End
    /\ currentFrame.v % RefRate # 0
    /\ lastCall.frame = Number((currentFrame.v \div RefRate) * RefRate)

\* C7 (as claimed): with loop and duration = 0 a tick leaves the position a
\* defined number, 0, and passes a valid frame to rendering.
ZeroDurationGuard ==
    (Updated /\ loop /\ duration = 0) =>
       (currentFrame = Number(0) /\ lastCall.frame = Number(0))

\* C8: after every render of frame f the media plays exactly when playback
\* is playing and f is inside [startFrame, endFrame); media the render
\* started is at (f - startFrame) / fps, media it stopped is at 0; in the
\* example movie it is stopped at frames 20 and 70 and plays at frame 45.
AudioWindowGating ==
    Rendered =>
       /\ ~paused <=> (isPlaying /\ Inside(lastCall.frame))
       /\ (lastCall.media[1] /\ ~paused) => currentTime = Offset(lastCall.frame)
       /\ (~lastCall.media[1] /\ paused) => currentTime = 0
       /\ (startFrame = <<30>> /\ endFrame = <<60>>) =>
             /\ lastCall.frame \in {Number(20 * RefRate), Number(70 * RefRate)} => paused
             /\ (lastCall.frame = Number(45 * RefRate) /\ isPlaying) => ~paused
             /\ (lastCall.frame = Number(45 * RefRate) /\ isPlaying /\ lastCall.media[1])
                   => currentTime = 2 * (45 - 30)

AudioWindowGatingWitness ==
    /\ Rendered
    /\ startFrame = <<30>> /\ endFrame = <<60>>
    /\ lastCall.frame = Number(45 * RefRate)
    /\ isPlaying
    /\ lastCall.media[1]
    /\ ~paused
    /\ currentTime = 30

\* C9: a render inside the window, while playback is playing and the media
\* already plays, rewrites the offset to (f - startFrame) / fps exactly when
\* it is more than 0.5 s away from it, and leaves it unchanged otherwise.
DriftCorrection ==
    (Rendered /\ isPlaying /\ Inside(lastCall.frame) /\ ~lastCall.media[1]) =>
       /\ ~paused
       /\ currentTime = IF Abs(lastCall.media[2] - Offset(lastCall.frame)) > fps
                        THEN Offset(lastCall.frame)
                        ELSE lastCall.media[2]

DriftCorrectionWitness ==
    /\ Rendered /\ isPlaying /\ Inside(lastCall.frame) /\ ~lastCall.media[1]
    /\ Abs(lastCall.media[2] - Offset(lastCall.frame)) > fps
    /\ currentTime = Offset(lastCall.frame)
    /\ currentTime # lastCall.media[2]

\* the other side of C9: a drift of exactly 0.5 s is left alone
DriftToleratedWitness ==
    /\ Rendered /\ isPlaying /\ Inside(lastCall.frame) /\ ~lastCall.media[1]
    /\ Abs(lastCall.media[2] - Offset(lastCall.frame)) = fps
    /\ currentTime = lastCall.media[2]

----------------------------------------------------------------------------
(* Properties of the element lookup *)

\* getElementState() has been called
Resolved == elementId # ""

\* the positions of the elements of the queried id, in element order
Matches == {i \in 1..Len(elements) : elements[i].id = elementId}

FirstMatch == CHOOSE i \in Matches : \A j \in Matches : i <= j

\* C11: resolving an id that no element has returns null, and resolving an id
\* that several elements share returns the state of the first of them in
\* element order
UnknownElement ==
    Resolved =>
        IF Matches = {} THEN state = Null
        ELSE state = interpolate(elements[FirstMatch].frames, targetFrame)

\* an id shared by two elements whose states at the queried frame differ has
\* been resolved
UnknownElementWitness ==
    /\ Resolved
    /\ Cardinality(Matches) = 2
    /\ \E i \in Matches :
          interpolate(elements[i].frames, targetFrame)
              # interpolate(elements[FirstMatch].frames, targetFrame)
    /\ state = interpolate(elements[FirstMatch].frames, targetFrame)

\* an id that no element of a non-empty movie has has been resolved
UnknownElementNullWitness ==
    /\ Resolved
    /\ elements # <<>>
    /\ Matches = {}
    /\ state = Null

----------------------------------------------------------------------------
(* Properties of play, pause, seek and the tick *)

\* C13: this.update is registered with the ticker exactly while the renderer
\* is playing, and never twice; play() leaves the renderer playing with one
\* registration and the position and the media as they were, also when it
\* was playing already; pause() leaves it not playing with no registration
\* and the position as it was, also when it was not playing.
PlayPauseMachine ==
    /\ ticker = (IF isPlaying THEN 1 ELSE 0)
    /\ lastCall.name = "play" =>
          /\ isPlaying
          /\ currentFrame = lastCall.before
          /\ <<paused, currentTime>> = lastCall.media
    /\ lastCall.name = "pause" =>
          /\ ~isPlaying
          /\ currentFrame = lastCall.before

\* play() has been called while playing, away from the start of the movie
PlayPauseMachineWitness ==
    /\ lastCall.name = "play"
    /\ lastCall.playing
    /\ lastCall.before.v > 0
    /\ ~paused
    /\ isPlaying /\ ticker = 1

\* pause() has been called while not playing, away from the start of the movie
PauseWhileNotPlayingWitness ==
    /\ lastCall.name = "pause"
    /\ ~lastCall.playing
    /\ lastCall.before.v > 0
    /\ ~isPlaying /\ ticker = 0

\* C14: seek(frame) leaves the renderer playing or not playing as it was,
\* with the registrations that go with it, sets the position to exactly
\* frame, and renders that frame once within the call.
SeekContract ==
    lastCall.name = "seek" =>
        /\ isPlaying = lastCall.playing
        /\ ticker = (IF lastCall.playing THEN 1 ELSE 0)
        /\ currentFrame = Number(lastCall.arg)
        /\ lastCall.renders = <<Number(lastCall.arg)>>

\* seek() has been called while playing, to a frame inside the audio window,
\* and its render has started the media
SeekContractWitness ==
    /\ lastCall.name = "seek"
    /\ lastCall.playing
    /\ isPlaying
    /\ lastCall.arg > 0
    /\ currentFrame = Number(lastCall.arg)
    /\ lastCall.media[1]
    /\ ~paused

\* seek() has been called while not playing, away from the position it had
SeekWhileNotPlayingWitness ==
    /\ lastCall.name = "seek"
    /\ ~lastCall.playing
    /\ ~isPlaying
    /\ lastCall.arg > End
    /\ currentFrame = Number(lastCall.arg)

\* C15: while the renderer is not playing no media plays: pause() leaves
\* the media paused, a tick that clamps and stops leaves it paused, and a
\* seek while not playing does not start it.
PauseStopsAudio ==
    /\ ~isPlaying => paused
    /\ lastCall.name = "pause" => paused
    /\ (WentPast /\ ~loop) => paused
    /\ (lastCall.name = "seek" /\ ~lastCall.playing) => paused

\* pause() has been called while the media was playing
PauseStopsAudioWitness ==
    /\ lastCall.name = "pause"
    /\ lastCall.playing
    /\ ~lastCall.media[1]
    /\ ~isPlaying
    /\ paused

\* a tick has clamped and stopped on a frame inside the audio window, the
\* media having played before
StopPausesAudioWitness ==
    /\ WentPast /\ ~loop
    /\ lastCall.playing
    /\ Inside(lastCall.frame)
    /\ currentTime > 0
    /\ paused

\* seek() has been called while not playing, to a frame inside the audio window
SeekWhilePausedWitness ==
    /\ lastCall.name = "seek"
    /\ ~lastCall.playing
    /\ Inside(lastCall.frame)
    /\ paused

\* C18: within one tick the position is advanced and then wrapped or
\* clamped, the renderer stopping where it clamps, and only then the frame
\* is rendered, once, at the floor of the new position and with the new
\* playing state.
TickOrdering ==
    Updated =>
        /\ lastCall.renders = <<Floor(currentFrame)>>
        /\ ~Greater(currentFrame, End)
        /\ (WentPast /\ ~loop) => ~isPlaying
        /\ <<paused, currentTime>> = renderFrame(Floor(currentFrame), isPlaying, lastCall.media)

\* a tick has wrapped the position to another frame than the one it had
\* advanced to, and rendered the frame it wrapped to
TickOrderingWitness ==
    /\ Updated /\ WentPast /\ loop /\ duration > 0
    /\ ~currentFrame.nan
    /\ Floor(currentFrame) # Floor(Number(Advanced))
    /\ Floor(currentFrame) # Floor(lastCall.before)
    /\ lastCall.renders = <<Floor(currentFrame)>>

\* a tick has clamped and stopped on a frame inside the audio window while
\* the media was paused, and its render has left the media paused
TickStopsBeforeRenderWitness ==
    /\ Updated /\ WentPast /\ ~loop
    /\ lastCall.playing
    /\ Inside(lastCall.frame)
    /\ currentTime = 0
    /\ paused
    /\ lastCall.renders = <<Number(End)>>

----------------------------------------------------------------------------
(* Properties of the rendered frame and of the end of playback *)

\* the number a is a whole frame of [0, duration]
WholeFrameInRange(a) == ~a.nan /\ a.v % RefRate = 0 /\ 0 <= a.v /\ a.v <= End

\* the number a lies in [0, duration]
InRange(a) == ~a.nan /\ 0 <= a.v /\ a.v <= End

\* C21 (as claimed): with duration > 0 and seeks to [0, duration] only,
\* every frame passed to renderFrame() is an integer of [0, duration] and
\* the position stays in [0, duration].
RenderedFrameRange ==
    duration > 0 =>
        /\ InRange(currentFrame)
        /\ Rendered =>
              \A i \in 1..Len(lastCall.renders) : WholeFrameInRange(lastCall.renders[i])

\* C21, the part the code keeps: the position stays in [0, duration], every
\* frame a tick renders is an integer of [0, duration], and the frame a
\* seek renders is its argument, an integer only when the argument is one.
RenderedFrameRangeOfTicks ==
    duration > 0 =>
        /\ InRange(currentFrame)
        /\ Updated =>
              \A i \in 1..Len(lastCall.renders) : WholeFrameInRange(lastCall.renders[i])
        /\ lastCall.name = "seek" =>
              /\ lastCall.renders = <<Number(lastCall.arg)>>
              /\ InRange(Number(lastCall.arg))

\* a tick has rendered the last frame of a looping movie from a position
\* between two frames, after a seek to a frame that is not whole
RenderedFrameRangeOfTicksWitness ==
    /\ Updated /\ loop /\ duration > 0
    /\ lastCall.before.v % RefRate # 0
    /\ lastCall.deltaTime > 0
    /\ lastCall.renders = <<Number(End)>>

\* playback has ended: not playing, at the duration, the media paused
Ended == ~isPlaying /\ currentFrame = Number(End) /\ paused

\* C22: left to run with ticks of positive delta, playback without loop
\* eventually ends not playing, at the duration and with the media paused;
\* with loop and duration > 0 no step takes the renderer out of the playing
\* state.
PlaybackEnd ==
    /\ (isPlaying /\ ~loop) ~> Ended
    /\ [][(isPlaying /\ loop /\ duration > 0) => isPlaying']_vars

\* playback without loop has run over several ticks to the end of a movie
\* whose media was playing
PlaybackEndWitness ==
    /\ ~loop /\ duration = MaxDuration
    /\ Updated /\ lastCall.playing
    /\ lastCall.before.v > 0
    /\ lastCall.before.v < End
    /\ currentTime > 0
    /\ Ended

\* a looping movie has wrapped and is still playing
StillPlayingWitness ==
    /\ loop /\ duration > 0
    /\ WentPast
    /\ isPlaying /\ ticker = 1

====
